---- MODULE Spec2Model ----
(***************************************************************************)
(* Quiz session coordinator of quiznet-tcp-udp.                            *)
(*                                                                         *)
(* The TCP quiz server exists twice in the repository: the console server  *)
(* tcp_quiz/server_tcp.py and the TCPServer class embedded in the          *)
(* Streamlit front end tcp_quiz/app.py.  Both are modelled; impl says      *)
(* which of the two a behaviour runs.                                      *)
(*                                                                         *)
(* Threads: one handle_client thread per accepted connection, one          *)
(* start_game thread per operator "start", all sharing one TCPServer       *)
(* object and its threading.Lock (not re-entrant).                         *)
(*                                                                         *)
(* The UDP quiz udp_quiz/server_udp.py runs two threads, listen_loop and   *)
(* the main thread in game_loop, and is modelled with its client           *)
(* udp_quiz/client_udp.py under the specification UdpSpec.  In a           *)
(* behaviour of Spec the UDP server is not running (udp_pc = "off"); in a  *)
(* behaviour of UdpSpec the TCP server has no connection and no start.     *)
(*                                                                         *)
(* FrameSpec looks at the receive loop of handle_client byte by byte: what *)
(* it hands to process_message for a byte stream cut into reads.           *)
(* ClientSpec is the console client tcp/client.py: its listen thread and   *)
(* the input threads it starts, one per question.                          *)
(***************************************************************************)
EXTENDS Integers, Sequences, FiniteSets, TLC

(* ---------------------------- bounds ----------------------------------- *)
\* connections the accept loop takes during a behaviour
NumConns == 2
\* operator "start" commands during a behaviour
MaxStarts == 2
\* clients that go away during a behaviour
MaxDrops == 1

\* the behaviours explored: all connections with one game, or one
\* connection with the operator typing "start" again
Scenarios ==
    { [conns |-> NumConns, starts |-> 1, drops |-> MaxDrops],
      [conns |-> 1, starts |-> MaxStarts, drops |-> MaxDrops] }

Conns == 1..NumConns
Workers == {0 - w : w \in 1..MaxStarts}
Threads == Conns \cup Workers
NoThread == 0

(* ---------------------------- inputs ----------------------------------- *)
\* usernames are strings, written as sequences of characters
Names == { <<>>, <<" ">>, <<"A">> }
\* the question list (id, correct) of a session; text and options are
\* never read by the coordinator
Q1 == [id |-> 1, correct |-> 2]
Q2 == [id |-> 2, correct |-> 3]
QuestionLists == { <<>>, <<Q1, Q2>> }
NoQuestion == [id |-> 0, correct |-> 0]
\* question ids and choices a client may put in an answer
QIds == {1, 2}
Choices == {2, 3, 5}

NoMsg == [type |-> "none", username |-> <<>>, question_id |-> 0, answer |-> 0]
JoinMsgs == {[type |-> "join", username |-> n, question_id |-> 0, answer |-> 0] : n \in Names}
AnswerMsgs == {[type |-> "answer", username |-> <<>>, question_id |-> q, answer |-> a] :
                 q \in QIds, a \in Choices}
ClientMsgs == JoinMsgs \cup AnswerMsgs

(* ---------------------------- helpers ---------------------------------- *)
\* the line terminator of the protocol
NL == "\n"

\* characters str.strip() removes, as far as they occur here
Whitespace == {" ", NL}

RECURSIVE lstrip(_)
lstrip(s) == IF s # <<>> /\ Head(s) \in Whitespace THEN lstrip(Tail(s)) ELSE s

RECURSIVE rstrip(_)
rstrip(s) == IF s # <<>> /\ s[Len(s)] \in Whitespace THEN rstrip(SubSeq(s, 1, Len(s) - 1)) ELSE s

\* str.strip()
strip(s) == rstrip(lstrip(s))

NoScores == [n \in {} |-> 0]

\* an outbound message; fields a message type does not carry hold a filler.
\* player is the username a message names: in the text of welcome, in the
\* text and the first_correct field of result
OutMsg(type, text, name, correct, scores, id, number) ==
    [type |-> type, message |-> text, player |-> name,
     correct_answer |-> correct, scores |-> scores, id |-> id,
     question_number |-> number]
NoOut == OutMsg("none", "", <<>>, 0, NoScores, 0, 0)

\* a send: the message and the connections that took it
Sent(m, to) == [m |-> m, to |-> to]
NoSend == Sent(NoOut, {})

VARIABLES
    scenario,          \* what the outside does in this behaviour: connections made,
                       \* "start" commands typed, clients that go away
    awards,            \* history: per connection, correct answers of its player that
                       \* handle_answer accepted since the round began
    impl,              \* "server_tcp" or "app": which TCPServer runs
    questions,         \* self.questions
    clients,           \* self.clients, in dict (insertion) order
    current_question,  \* self.current_question
    game_active,       \* self.game_active
    answered,          \* self.answered
    lock,              \* thread holding self.lock, NoThread when free
    pc,                \* where each thread stands
    cur,               \* message a connection handler is processing
    out,               \* message a thread is about to broadcast
    idx,               \* question number of a start_game loop
    sockClosed,        \* server side called client_socket.close()
    peerAlive,         \* the client end of the connection is still open
    sent,              \* what each thread sent last: a handler since it took
                       \* the line it is processing, a round worker ever
    accepted           \* history: per connection, whether handle_answer has met an
                       \* answer of this player with a choice in 1..4 for the question
                       \* now current, the last one "right" or "wrong" ("none": not yet)

VARIABLES
    udp_pc,            \* where the main thread of the UDP server stands
    udp_questions,     \* UDPQuizServer.questions
    udp_clients,       \* UDPQuizServer.clients: name -> endpoint
    scores,            \* UDPQuizServer.scores: name -> score
    answers,           \* UDPQuizServer.answers: question id -> list of (name, answer);
                       \* a missing key reads as the empty list (answers.get(qid, []))
    qi,                \* position of game_loop's q in self.questions
    answers_copy,      \* game_loop's answers_copy
    players,           \* game_loop's players
    results,           \* game_loop's results, by player name
    broadcasts,        \* history: the messages game_loop has broadcast
    cpc,               \* where the client at each endpoint stands
    inbox,             \* per endpoint, ids of the questions received and not yet shown
    net,               \* datagrams of the clients on their way to the server
    picked,            \* history: (endpoint, question id) where the user typed the
                       \* number under which the right choice was displayed
    timely             \* history: the answers that arrived under the id of the question
                       \* being collected, after it was opened and before the copy

VARIABLES
    fpc,               \* handle_client of one connection: "recv" or "closed"
    stream,            \* all the bytes the peer sends on the connection
    unread,            \* the bytes not yet returned by recv
    buffer,            \* handle_client's buffer (server_tcp.py)
    dispatched         \* history: the lines handed to process_message

VARIABLES
    client_question,   \* TCPClient.current_question: its id, 0 for None
    waiting_for_answer,\* TCPClient.waiting_for_answer
    inputs,            \* the get_answer_input threads, in the order they were started:
                       \* the id of the question each was started for, where it is,
                       \* the line it read
    typed,             \* number of lines the user has typed so far
    answers_sent       \* history: the answer messages sent, each with the id that
                       \* was current at the client when it was sent

tcpvars == <<scenario, awards, impl, questions, clients, current_question, game_active, answered,
             lock, pc, cur, out, idx, sockClosed, peerAlive, sent, accepted>>

udpvars == <<udp_pc, udp_questions, udp_clients, scores, answers, qi, answers_copy, players,
             results, broadcasts, cpc, inbox, net, picked, timely>>

framevars == <<fpc, stream, unread, buffer, dispatched>>

clivars == <<client_question, waiting_for_answer, inputs, typed, answers_sent>>

vars == <<tcpvars, udpvars, framevars, clivars>>

(* ---------------------------- UDP inputs ------------------------------- *)
\* players a round waits for (server_udp.py, MIN_PLAYERS)
MIN_PLAYERS == 1
\* answers the model lets listen_loop store under one question id
MaxStored == 2

\* endpoints (ip, port) a datagram can come from; a client runs at each
Addrs == {1, 2}
\* the name the user typed into the client at endpoint a
Username(a) == IF a = 1 THEN "A" ELSE "B"
\* options a user can type at "Your answer (1-4)"
Picks == 1..4

\* questions.json of udp_quiz: "answer" is the 1-based index of the right choice
UQ1 == [id |-> 1, answer |-> 2]
UQ2 == [id |-> 2, answer |-> 1]
UdpQuestionLists == { <<>>, <<UQ1>>, <<UQ1, UQ2>> }

\* datagrams: isint says whether the JSON value of "answer" is an integer
Register(n, a) ==
    [type |-> "register", name |-> n, question_id |-> 0, answer |-> 0, isint |-> FALSE,
     addr |-> a]
Answer(n, q, v, int, a) ==
    [type |-> "answer", name |-> n, question_id |-> q, answer |-> v, isint |-> int, addr |-> a]

\* datagrams that reach the server when other programs than client_udp.py
\* talk to it: an empty name, a name in use sent from another endpoint,
\* answers under any name, repeated as often as the sender likes
Stray ==
    {Register("", 1), Register("A", 1), Register("A", 2), Register("B", 2)}
    \cup {Answer(n, 1, v, TRUE, 2) : n \in {"A", "B"}, v \in {1, 2}}
    \cup {Answer("A", 2, 1, TRUE, 2)}
    \cup {Answer("A", 1, 2, FALSE, 2)}

\* player_answer = None
None == 0 - 1
NoFn == [n \in {} |-> 0]

\* the UDP server is not running
UdpIdle ==
    /\ udp_pc = "off"
    /\ udp_questions = <<>>
    /\ udp_clients = NoFn
    /\ scores = NoFn
    /\ answers = [q \in {1, 2} |-> <<>>]
    /\ qi = 0
    /\ answers_copy = <<>>
    /\ players = {}
    /\ results = NoFn
    /\ broadcasts = <<>>
    /\ cpc = [a \in Addrs |-> "off"]
    /\ inbox = [a \in Addrs |-> <<>>]
    /\ net = {}
    /\ picked = {}
    /\ timely = <<>>

\* no connection is looked at byte by byte
FrameIdle ==
    /\ fpc = "off"
    /\ stream = <<>>
    /\ unread = <<>>
    /\ buffer = <<>>
    /\ dispatched = <<>>

\* no console client runs
ClientIdle ==
    /\ client_question = 0
    /\ waiting_for_answer = FALSE
    /\ inputs = <<>>
    /\ typed = 0
    /\ answers_sent = <<>>

(* ---------------------------- registry --------------------------------- *)
Socks == {clients[i].sock : i \in 1..Len(clients)}
Pos(c) == CHOOSE i \in 1..Len(clients) : clients[i].sock = c
Entry(c) == clients[Pos(c)]
Usernames == {clients[i].username : i \in 1..Len(clients)}

\* a removal that takes the oldest entry when its own target is not there
Without_pop(reg, gone) ==
    IF reg # <<>> /\ \A i \in 1..Len(reg) : reg[i].sock \notin gone
    THEN Tail(reg)
    ELSE SelectSeq(reg, LAMBDA e : e.sock \notin gone)

\* 'if client in self.clients: del self.clients[client]' for every client
\* in gone: the other entries keep their records and their order
RECURSIVE Without(_, _)
Without(reg, gone) ==
    IF reg = <<>> THEN <<>>
    ELSE IF Head(reg).sock \in gone THEN Without(Tail(reg), gone)
         ELSE <<Head(reg)>> \o Without(Tail(reg), gone)

\* self.clients[client_socket] = {...}: a new key goes last, an existing
\* key keeps its place
Put(reg, c, name) ==
    LET e == [sock |-> c, username |-> name, score |-> 0] IN
    IF \E i \in 1..Len(reg) : reg[i].sock = c
    THEN [i \in 1..Len(reg) |-> IF reg[i].sock = c THEN e ELSE reg[i]]
    ELSE Append(reg, e)

\* a snapshot that shows every player one award
Leaderboard_one_award == [n \in Usernames |-> 10]

\* get_leaderboard's dict: a later entry of the same name replaces an earlier
Leaderboard ==
    [n \in Usernames |->
        clients[CHOOSE i \in 1..Len(clients) :
                  /\ clients[i].username = n
                  /\ \A j \in 1..Len(clients) : clients[j].username = n => j <= i].score]

Init ==
    /\ scenario \in Scenarios
    /\ awards = [c \in Conns |-> 0]
    /\ impl \in {"server_tcp", "app"}
    /\ questions \in QuestionLists
    /\ clients = <<>>
    /\ current_question = NoQuestion
    /\ game_active = FALSE
    /\ answered = {}
    /\ lock = NoThread
    /\ pc = [t \in Threads |-> IF t \in Conns THEN "unconnected" ELSE "unborn"]
    /\ cur = [c \in Conns |-> NoMsg]
    /\ out = [t \in Threads |-> NoOut]
    /\ idx = [w \in Workers |-> 0]
    /\ sockClosed = [c \in Conns |-> FALSE]
    /\ peerAlive = [c \in Conns |-> FALSE]
    /\ sent = [t \in Threads |-> NoSend]
    /\ accepted = [c \in Conns |-> "none"]
    /\ UdpIdle
    /\ FrameIdle
    /\ ClientIdle

(* ---------------------------- sending ---------------------------------- *)
\* outcomes of socket.send on connection c: TRUE when the bytes are taken,
\* FALSE when it raises.  A socket the server closed raises OSError; a
\* socket whose peer is gone either still takes the bytes or raises
\* BrokenPipeError / ConnectionResetError.
SendOutcomes(c) ==
    IF sockClosed[c] THEN {FALSE}
    ELSE IF peerAlive[c] THEN {TRUE} ELSE {TRUE, FALSE}

\* send_message: every send exception is swallowed
send_message(m, c, ok) ==
    sent' = IF ok THEN [sent EXCEPT ![c] = Sent(m, {c})] ELSE sent

(* ---------------------------- connections ------------------------------ *)
\* start_server's accept loop starts a handle_client thread
accept(c) ==
    /\ pc[c] = "unconnected"
    /\ c <= scenario.conns
    /\ \A d \in Conns : d < c => pc[d] # "unconnected"
    /\ pc' = [pc EXCEPT ![c] = "recv"]
    /\ peerAlive' = [peerAlive EXCEPT ![c] = TRUE]
    /\ UNCHANGED <<framevars, clivars, udpvars, scenario, awards, impl, questions, clients, current_question, game_active,
                   answered, lock, cur, out, idx, sockClosed, sent, accepted>>

\* the client end goes away (disconnect, crash)
peer_close(c) ==
    /\ pc[c] \notin {"unconnected", "closed"}
    /\ peerAlive[c]
    /\ Cardinality({d \in Conns : pc[d] # "unconnected" /\ ~peerAlive[d]}) < scenario.drops
    /\ peerAlive' = [peerAlive EXCEPT ![c] = FALSE]
    /\ UNCHANGED <<framevars, clivars, udpvars, scenario, awards, impl, questions, clients, current_question, game_active,
                   answered, lock, pc, cur, out, idx, sockClosed, sent, accepted>>

\* process_message: dispatch on the type tag; game_active is read without
\* the lock
process_message(m) ==
    IF m.type = "join" THEN "handle_join"
    ELSE IF m.type = "answer" /\ game_active THEN "handle_answer"
    ELSE "recv"

\* one turn of handle_client's receive loop
recv(c) ==
    /\ pc[c] = "recv"
    /\ IF sockClosed[c] \/ ~peerAlive[c]
       THEN \* recv raises on a closed socket, returns '' at end of stream
            /\ pc' = [pc EXCEPT ![c] = "cleanup"]
            /\ UNCHANGED <<cur, sent>>
       ELSE \E m \in ClientMsgs :
              /\ pc' = [pc EXCEPT ![c] = process_message(m)]
              /\ cur' = [cur EXCEPT ![c] = IF process_message(m) = "recv" THEN NoMsg ELSE m]
              /\ sent' = [sent EXCEPT ![c] = NoSend]
    /\ UNCHANGED <<framevars, clivars, udpvars, scenario, awards, impl, questions, clients, current_question, game_active,
                   answered, lock, out, idx, sockClosed, peerAlive, accepted>>

\* handle_client after the loop: deregister under the lock, close
cleanup(c) ==
    /\ pc[c] = "cleanup"
    /\ lock = NoThread
    /\ clients' = Without(clients, {c})
    /\ sockClosed' = [sockClosed EXCEPT ![c] = TRUE]
    /\ pc' = [pc EXCEPT ![c] = "closed"]
    /\ UNCHANGED <<framevars, clivars, udpvars, scenario, awards, impl, questions, current_question, game_active, answered,
                   lock, cur, out, idx, peerAlive, sent, accepted>>

(* ---------------------------- join ------------------------------------- *)
\* server_tcp.py handle_join.  The accepted branch ends in
\* send_leaderboard(), whose get_leaderboard() takes self.lock again while
\* this thread still holds it.
tcp_handle_join(c) ==
    LET username == strip(cur[c].username) IN
    \E ok \in SendOutcomes(c) :
      IF username = <<>> \/ username \in Usernames
      THEN /\ send_message(OutMsg("error",
                              IF username = <<>> THEN "Username cannot be empty"
                                                 ELSE "Username already taken",
                              <<>>, 0, NoScores, 0, 0), c, ok)
           /\ sockClosed' = [sockClosed EXCEPT ![c] = TRUE]
           /\ pc' = [pc EXCEPT ![c] = "recv"]
           /\ cur' = [cur EXCEPT ![c] = NoMsg]
           /\ UNCHANGED <<clients, lock, accepted>>
      ELSE /\ clients' = Put(clients, c, username)
           /\ accepted' = [accepted EXCEPT ![c] = "none"]
           /\ send_message(OutMsg("welcome", "", username, 0, NoScores, 0, 0), c, ok)
           /\ pc' = [pc EXCEPT ![c] = "join_get_leaderboard"]
           /\ lock' = c
           /\ UNCHANGED <<sockClosed, cur>>

\* app_name_free without the look-up of the names in use
app_name_free_unchecked(username) == username # <<>>

\* the name test of app.py handle_join
app_name_free(username) == username # <<>> /\ username \notin Usernames

\* app.py handle_join: no trimming, one rejection text, no leaderboard
app_handle_join(c) ==
    LET username == cur[c].username IN
    \E ok \in SendOutcomes(c) :
      /\ IF app_name_free(username)
         THEN /\ clients' = Put(clients, c, username)
              /\ accepted' = [accepted EXCEPT ![c] = "none"]
              /\ send_message(OutMsg("welcome", "", username, 0, NoScores, 0, 0), c, ok)
              /\ UNCHANGED sockClosed
         ELSE /\ send_message(OutMsg("error", "Username already taken",
                                     <<>>, 0, NoScores, 0, 0), c, ok)
              /\ sockClosed' = [sockClosed EXCEPT ![c] = TRUE]
              /\ UNCHANGED <<clients, accepted>>
      /\ pc' = [pc EXCEPT ![c] = "recv"]
      /\ cur' = [cur EXCEPT ![c] = NoMsg]
      /\ UNCHANGED lock

handle_join(c) ==
    /\ pc[c] = "handle_join"
    /\ lock = NoThread
    /\ IF impl = "server_tcp" THEN tcp_handle_join(c) ELSE app_handle_join(c)
    /\ awards' = IF clients' # clients THEN [awards EXCEPT ![c] = 0] ELSE awards
    /\ UNCHANGED <<framevars, clivars, udpvars, scenario, impl, questions, current_question, game_active, answered,
                   out, idx, peerAlive>>

(* ---------------------------- answers ---------------------------------- *)
\* a correct answer that costs its points
AWARD_taken == 0 - 10

\* points for a correct answer
AWARD == 10

Accepted(c, right) == [accepted EXCEPT ![c] = IF right THEN "right" ELSE "wrong"]

\* the answer is an integer in 1..4
tcp_in_range(a) == a >= 1 /\ a <= 4

\* the answer is for the question that is current
tcp_is_current(m) == current_question # NoQuestion /\ m.question_id = current_question.id

\* server_tcp.py handle_answer.  A correct answer ends in self.broadcast(),
\* which takes self.lock again while this thread still holds it.
tcp_handle_answer(c) ==
    LET m == cur[c] IN
    IF c \notin Socks \/ c \in answered
    THEN /\ pc' = [pc EXCEPT ![c] = "recv"]
         /\ cur' = [cur EXCEPT ![c] = NoMsg]
         /\ UNCHANGED <<clients, answered, lock, out, sent, accepted>>
    ELSE IF ~tcp_in_range(m.answer)
    THEN /\ pc' = [pc EXCEPT ![c] = "recv"]
         /\ cur' = [cur EXCEPT ![c] = NoMsg]
         /\ UNCHANGED <<clients, answered, lock, out, sent, accepted>>
    ELSE IF ~tcp_is_current(m)
    THEN /\ pc' = [pc EXCEPT ![c] = "recv"]
         /\ cur' = [cur EXCEPT ![c] = NoMsg]
         /\ UNCHANGED <<clients, answered, lock, out, sent, accepted>>
    ELSE /\ answered' = answered \cup {c}
         /\ accepted' = Accepted(c, m.answer = current_question.correct)
         /\ IF m.answer = current_question.correct
            THEN /\ clients' = [clients EXCEPT ![Pos(c)].score = @ + AWARD]
                 /\ out' = [out EXCEPT ![c] = OutMsg("result", "", Entry(c).username,
                                                     current_question.correct, NoScores, 0, 0)]
                 /\ pc' = [pc EXCEPT ![c] = "answer_broadcast_result"]
                 /\ lock' = c
                 /\ UNCHANGED <<cur, sent>>
            ELSE /\ \E ok \in SendOutcomes(c) :
                      send_message(OutMsg("wrong_answer", "", <<>>, 0, NoScores, 0, 0), c, ok)
                 /\ pc' = [pc EXCEPT ![c] = "recv"]
                 /\ cur' = [cur EXCEPT ![c] = NoMsg]
                 /\ UNCHANGED <<clients, lock, out>>

\* app_scores without the comparison of the choice
app_scores_any_choice(m) ==
    /\ current_question # NoQuestion
    /\ m.question_id = current_question.id

\* app_scores without the comparison of the question id
app_scores_any_id(m) ==
    /\ current_question # NoQuestion
    /\ m.answer = current_question.correct

\* the test of app.py handle_answer: current question, its id, its answer
app_scores(m) ==
    /\ current_question # NoQuestion
    /\ m.question_id = current_question.id
    /\ m.answer = current_question.correct

\* app.py handle_answer: only a correct answer for the current question
\* does anything; it too ends in self.broadcast() under the held lock
app_handle_answer(c) ==
    LET m == cur[c] IN
    IF c \notin Socks \/ c \in answered
    THEN /\ pc' = [pc EXCEPT ![c] = "recv"]
         /\ cur' = [cur EXCEPT ![c] = NoMsg]
         /\ UNCHANGED <<clients, answered, lock, out, sent, accepted>>
    ELSE IF app_scores(m)
    THEN /\ clients' = [clients EXCEPT ![Pos(c)].score = @ + AWARD]
         /\ answered' = answered \cup {c}
         /\ accepted' = Accepted(c, m.answer = current_question.correct)
         /\ out' = [out EXCEPT ![c] = OutMsg("result", "", Entry(c).username,
                                             current_question.correct, NoScores, 0, 0)]
         /\ pc' = [pc EXCEPT ![c] = "answer_broadcast_result"]
         /\ lock' = c
         /\ UNCHANGED <<cur, sent>>
    ELSE /\ accepted' = IF tcp_is_current(m) /\ tcp_in_range(m.answer)
                        THEN Accepted(c, FALSE)
                        ELSE accepted
         /\ pc' = [pc EXCEPT ![c] = "recv"]
         /\ cur' = [cur EXCEPT ![c] = NoMsg]
         /\ UNCHANGED <<clients, answered, lock, out, sent>>

handle_answer(c) ==
    /\ pc[c] = "handle_answer"
    /\ lock = NoThread
    /\ IF impl = "server_tcp" THEN tcp_handle_answer(c) ELSE app_handle_answer(c)
    /\ awards' = IF pc'[c] = "answer_broadcast_result"
                 THEN [awards EXCEPT ![c] = @ + 1] ELSE awards
    /\ UNCHANGED <<framevars, clivars, udpvars, scenario, impl, questions, current_question, game_active, idx,
                   sockClosed, peerAlive>>

(* ---------------------------- leaderboard, broadcast ------------------- *)
\* get_leaderboard that reads the registry without asking for self.lock
get_leaderboard_unlocked(t) ==
    /\ pc[t] \in {"join_get_leaderboard", "answer_get_leaderboard", "end_get_leaderboard"}
    /\ out' = [out EXCEPT ![t] =
                 IF pc[t] = "end_get_leaderboard"
                 THEN OutMsg("game_over", "", <<>>, 0, Leaderboard, 0, 0)
                 ELSE OutMsg("leaderboard", "", <<>>, 0, Leaderboard, 0, 0)]
    /\ pc' = [pc EXCEPT ![t] =
                 CASE pc[t] = "join_get_leaderboard" -> "join_broadcast"
                   [] pc[t] = "answer_get_leaderboard" -> "answer_broadcast_leaderboard"
                   [] OTHER -> "end_broadcast"]
    /\ UNCHANGED <<framevars, clivars, udpvars, scenario, awards, impl, questions, clients, current_question, game_active, answered,
                   lock, cur, idx, sockClosed, peerAlive, sent, accepted>>

\* get_leaderboard, called by send_leaderboard and end_game: the snapshot
\* is taken under self.lock
get_leaderboard(t) ==
    /\ pc[t] \in {"join_get_leaderboard", "answer_get_leaderboard", "end_get_leaderboard"}
    /\ lock = NoThread
    /\ out' = [out EXCEPT ![t] =
                 IF pc[t] = "end_get_leaderboard"
                 THEN OutMsg("game_over", "", <<>>, 0, Leaderboard, 0, 0)
                 ELSE OutMsg("leaderboard", "", <<>>, 0, Leaderboard, 0, 0)]
    /\ pc' = [pc EXCEPT ![t] =
                 CASE pc[t] = "join_get_leaderboard" -> "join_broadcast"
                   [] pc[t] = "answer_get_leaderboard" -> "answer_broadcast_leaderboard"
                   [] OTHER -> "end_broadcast"]
    /\ UNCHANGED <<framevars, clivars, udpvars, scenario, awards, impl, questions, clients, current_question, game_active, answered,
                   lock, cur, idx, sockClosed, peerAlive, sent, accepted>>

\* the sets of connections whose send may raise during one sweep
FailSets ==
    {F \in SUBSET Socks :
        \A c \in Socks : /\ c \in F => FALSE \in SendOutcomes(c)
                         /\ c \notin F => TRUE \in SendOutcomes(c)}

\* where the caller of broadcast goes on
AfterBroadcast(p) ==
    CASE p = "join_broadcast" -> "recv"
      [] p = "answer_broadcast_result" -> "answer_get_leaderboard"
      [] p = "answer_broadcast_leaderboard" -> "recv"
      [] p = "game_broadcast_question" -> "sleep"
      [] p = "game_broadcast_reveal" -> "pause"
      [] OTHER -> "done"

\* server_tcp.py broadcast: every send error is caught, the failed
\* connections are removed after the sweep
tcp_broadcast(t) ==
    \E F \in FailSets :
      /\ sent' = [sent EXCEPT ![t] = Sent(out[t], Socks \ F)]
      /\ clients' = Without(clients, F)
      /\ pc' = [pc EXCEPT ![t] = AfterBroadcast(pc[t])]

\* app.py broadcast: OSError of a socket the server already closed is not
\* among the caught exceptions; it ends the sweep and the calling thread
app_broadcast(t) ==
    \E F \in FailSets :
      IF \E i \in 1..Len(clients) : sockClosed[clients[i].sock]
      THEN LET k == CHOOSE i \in 1..Len(clients) :
                      /\ sockClosed[clients[i].sock]
                      /\ \A j \in 1..(i - 1) : ~sockClosed[clients[j].sock]
           IN /\ sent' = [sent EXCEPT ![t] =
                           Sent(out[t], {clients[j].sock : j \in 1..(k - 1)} \ F)]
              /\ pc' = [pc EXCEPT ![t] = IF t \in Conns THEN "cleanup" ELSE "crashed"]
              /\ UNCHANGED clients
      ELSE /\ sent' = [sent EXCEPT ![t] = Sent(out[t], Socks \ F)]
           /\ clients' = Without(clients, F)
           /\ pc' = [pc EXCEPT ![t] = AfterBroadcast(pc[t])]

broadcast(t) ==
    /\ pc[t] \in {"join_broadcast", "answer_broadcast_result", "answer_broadcast_leaderboard",
                  "game_broadcast_question", "game_broadcast_reveal", "end_broadcast"}
    /\ lock = NoThread
    /\ IF impl = "server_tcp" THEN tcp_broadcast(t) ELSE app_broadcast(t)
    /\ cur' = IF t \in Conns /\ pc'[t] = "recv" THEN [cur EXCEPT ![t] = NoMsg] ELSE cur
    /\ UNCHANGED <<framevars, clivars, udpvars, scenario, awards, impl, questions, current_question, game_active, answered, lock,
                   out, idx, sockClosed, peerAlive, accepted>>

(* ---------------------------- round ------------------------------------ *)
\* operator "start": main() of server_tcp.py refuses while a game is active
\* or nobody is connected; the Start Game button of app.py is disabled
\* while a game is active
start_command(w) ==
    /\ pc[w] = "unborn"
    /\ \A v \in Workers : v > w => pc[v] # "unborn"
    /\ Cardinality({v \in Workers : pc[v] # "unborn"}) < scenario.starts
    /\ ~game_active
    /\ impl = "server_tcp" => clients # <<>>
    /\ pc' = [pc EXCEPT ![w] = "start_game"]
    /\ UNCHANGED <<framevars, clivars, udpvars, scenario, awards, impl, questions, clients, current_question, game_active, answered,
                   lock, cur, out, idx, sockClosed, peerAlive, sent, accepted>>

\* start_game up to the first turn of its loop
start_game(w) ==
    /\ pc[w] = "start_game"
    /\ IF impl = "server_tcp" /\ (questions = <<>> \/ clients = <<>>)
       THEN /\ pc' = [pc EXCEPT ![w] = "done"]
            /\ UNCHANGED <<game_active, idx, awards>>
       ELSE /\ game_active' = TRUE
            /\ idx' = [idx EXCEPT ![w] = 1]
            /\ awards' = [c \in Conns |-> 0]
            /\ pc' = [pc EXCEPT ![w] = IF questions = <<>> THEN "end_game" ELSE "next_question"]
    /\ UNCHANGED <<framevars, clivars, udpvars, scenario, impl, questions, clients, current_question, answered, lock, cur,
                   out, sockClosed, peerAlive, sent, accepted>>

\* self.current_question = question
next_question(w) ==
    /\ pc[w] = "next_question"
    /\ current_question' = questions[idx[w]]
    /\ accepted' = [c \in Conns |-> "none"]
    /\ pc' = [pc EXCEPT ![w] = "clear_answered"]
    /\ UNCHANGED <<framevars, clivars, udpvars, scenario, awards, impl, questions, clients, game_active, answered, lock, cur, out,
                   idx, sockClosed, peerAlive, sent>>

\* self.answered.clear(), then the question message is built
clear_answered(w) ==
    /\ pc[w] = "clear_answered"
    /\ answered' = {}
    /\ out' = [out EXCEPT ![w] =
                 OutMsg("question", "", <<>>, 0, NoScores, questions[idx[w]].id,
                        IF impl = "server_tcp" THEN idx[w] ELSE 0)]
    /\ pc' = [pc EXCEPT ![w] = "game_broadcast_question"]
    /\ UNCHANGED <<framevars, clivars, udpvars, scenario, awards, impl, questions, clients, current_question, game_active, lock, cur,
                   idx, sockClosed, peerAlive, sent, accepted>>

\* time.sleep(15) ends; the reveal is chosen on self.answered
sleep(w) ==
    /\ pc[w] = "sleep"
    /\ out' = [out EXCEPT ![w] =
                 OutMsg(IF answered = {} THEN "timeout" ELSE "question_end", "", <<>>,
                        questions[idx[w]].correct, NoScores, 0, 0)]
    /\ pc' = [pc EXCEPT ![w] = "game_broadcast_reveal"]
    /\ UNCHANGED <<framevars, clivars, udpvars, scenario, awards, impl, questions, clients, current_question, game_active, answered,
                   lock, cur, idx, sockClosed, peerAlive, sent, accepted>>

\* time.sleep(3) ends; next turn of the loop or end_game
pause(w) ==
    /\ pc[w] = "pause"
    /\ IF idx[w] < Len(questions)
       THEN /\ idx' = [idx EXCEPT ![w] = @ + 1]
            /\ pc' = [pc EXCEPT ![w] = "next_question"]
       ELSE /\ pc' = [pc EXCEPT ![w] = "end_game"]
            /\ UNCHANGED idx
    /\ UNCHANGED <<framevars, clivars, udpvars, scenario, awards, impl, questions, clients, current_question, game_active, answered,
                   lock, cur, out, sockClosed, peerAlive, sent, accepted>>

\* end_game before its snapshot; app.py leaves current_question as it is
end_game(w) ==
    /\ pc[w] = "end_game"
    /\ game_active' = FALSE
    /\ current_question' = IF impl = "server_tcp" THEN NoQuestion ELSE current_question
    /\ pc' = [pc EXCEPT ![w] = "end_get_leaderboard"]
    /\ UNCHANGED <<framevars, clivars, udpvars, scenario, awards, impl, questions, clients, answered, lock, cur, out, idx,
                   sockClosed, peerAlive, sent, accepted>>

(* ---------------------------- specification ---------------------------- *)
Next ==
    \/ \E c \in Conns : accept(c)
    \/ \E c \in Conns : peer_close(c)
    \/ \E c \in Conns : recv(c)
    \/ \E c \in Conns : cleanup(c)
    \/ \E c \in Conns : handle_join(c)
    \/ \E c \in Conns : handle_answer(c)
    \/ \E t \in Threads : get_leaderboard(t)
    \/ \E t \in Threads : broadcast(t)
    \/ \E w \in Workers : start_command(w)
    \/ \E w \in Workers : start_game(w)
    \/ \E w \in Workers : next_question(w)
    \/ \E w \in Workers : clear_answered(w)
    \/ \E w \in Workers : sleep(w)
    \/ \E w \in Workers : pause(w)
    \/ \E w \in Workers : end_game(w)

Spec == Init /\ [][Next]_vars

\* the server's own threads are scheduled fairly; what clients and the
\* operator do (connect, send a line, go away, type "start") is up to them
ServerStep(t) ==
    \/ t \in Conns /\ pc[t] = "recv" /\ (sockClosed[t] \/ ~peerAlive[t]) /\ recv(t)
    \/ t \in Conns /\ cleanup(t)
    \/ t \in Conns /\ handle_join(t)
    \/ t \in Conns /\ handle_answer(t)
    \/ get_leaderboard(t)
    \/ broadcast(t)
    \/ t \in Workers /\ start_game(t)
    \/ t \in Workers /\ next_question(t)
    \/ t \in Workers /\ clear_answered(t)
    \/ t \in Workers /\ sleep(t)
    \/ t \in Workers /\ pause(t)
    \/ t \in Workers /\ end_game(t)

FairSpec == Spec /\ \A t \in Threads : WF_vars(ServerStep(t))

(* ---------------------------- UDP quiz --------------------------------- *)
\* the TCP server is not running: nobody connects, nobody types "start"
TcpQuiet ==
    /\ scenario = [conns |-> 0, starts |-> 0, drops |-> 0]
    /\ awards = [c \in Conns |-> 0]
    /\ questions = <<>>
    /\ clients = <<>>
    /\ current_question = NoQuestion
    /\ game_active = FALSE
    /\ answered = {}
    /\ lock = NoThread
    /\ pc = [t \in Threads |-> IF t \in Conns THEN "unconnected" ELSE "unborn"]
    /\ cur = [c \in Conns |-> NoMsg]
    /\ out = [t \in Threads |-> NoOut]
    /\ idx = [w \in Workers |-> 0]
    /\ sockClosed = [c \in Conns |-> FALSE]
    /\ peerAlive = [c \in Conns |-> FALSE]
    /\ sent = [t \in Threads |-> NoSend]
    /\ accepted = [c \in Conns |-> "none"]

\* the TCP server of a behaviour that is about the UDP quiz
TcpIdle == TcpQuiet /\ impl = "server_tcp"

\* UDPQuizServer() and start() up to wait_for_players; the two clients not
\* yet started, or not there at all
UdpInit ==
    /\ TcpIdle
    /\ udp_pc = "wait_for_players"
    /\ udp_questions \in UdpQuestionLists
    /\ udp_clients = NoFn
    /\ scores = NoFn
    /\ answers = [q \in {1, 2} |-> <<>>]
    /\ qi = 0
    /\ answers_copy = <<>>
    /\ players = {}
    /\ results = NoFn
    /\ broadcasts = <<>>
    /\ cpc \in {[a \in Addrs |-> "start"], [a \in Addrs |-> "off"]}
    /\ inbox = [a \in Addrs |-> <<>>]
    /\ net = {}
    /\ picked = {}
    /\ timely = <<>>
    /\ FrameIdle
    /\ ClientIdle

\* what listen_loop can receive next: in a behaviour with the two clients
\* their datagrams, in any order; in one without them the stray datagrams
Arriving == IF \A a \in Addrs : cpc[a] = "off" THEN Stray ELSE net

\* client: register() and the start of the listen thread
register(a) ==
    /\ cpc[a] = "start"
    /\ net' = net \cup {Register(Username(a), a)}
    /\ cpc' = [cpc EXCEPT ![a] = "listen"]
    /\ UNCHANGED <<framevars, clivars, tcpvars, timely, picked, udp_pc, udp_questions, udp_clients, scores, answers, qi,
                   answers_copy, players, results, broadcasts, inbox>>

\* the question of id q
UdpQuestionOfId(q) == IF q = UQ1.id THEN UQ1 ELSE UQ2
\* the number show_question prints before the right choice of question q:
\* enumerate(msg["choices"], 1) numbers the choices from 1, as "answer" does
Displayed(q) == UdpQuestionOfId(q).answer

\* client: show_question for the oldest question received, the user typing k
show_question(a, k) ==
    /\ cpc[a] = "listen"
    /\ inbox[a] # <<>>
    /\ net' = net \cup {Answer(Username(a), Head(inbox[a]), k - 1, TRUE, a)}
    /\ inbox' = [inbox EXCEPT ![a] = Tail(@)]
    /\ picked' = IF k = Displayed(Head(inbox[a])) THEN picked \cup {<<a, Head(inbox[a])>>}
                                                 ELSE picked \ {<<a, Head(inbox[a])>>}
    /\ UNCHANGED <<framevars, clivars, tcpvars, timely, udp_pc, udp_questions, udp_clients, scores, answers, qi,
                   answers_copy, players, results, broadcasts, cpc>>

\* self.clients[name] = addr
SetClient(reg, name, addr) == (name :> addr) @@ reg
\* self.scores.setdefault(name, 0)
SetDefault(sc, name) == IF name \in DOMAIN sc THEN sc ELSE sc @@ (name :> 0)

\* listen_loop: one datagram d received and handled
listen_loop(d) ==
    /\ udp_pc \notin {"off", "done"}
    /\ net' = net \ {d}
    /\ IF d.type = "register" /\ d.name # ""
       THEN /\ udp_clients' = SetClient(udp_clients, d.name, d.addr)
            /\ scores' = SetDefault(scores, d.name)
            /\ UNCHANGED answers
       ELSE IF d.type = "answer" /\ d.isint
       THEN /\ Len(answers[d.question_id]) < MaxStored
            /\ answers' = [answers EXCEPT
                              ![d.question_id] = Append(@, [n |-> d.name, a |-> d.answer])]
            /\ UNCHANGED <<udp_clients, scores>>
       ELSE UNCHANGED <<udp_clients, scores, answers>>
    /\ timely' = IF /\ answers' # answers
                    /\ udp_pc \in {"question", "sleep"}
                    /\ d.question_id = udp_questions[qi].id
                 THEN Append(timely, [n |-> d.name, a |-> d.answer])
                 ELSE timely
    /\ UNCHANGED <<framevars, clivars, tcpvars, picked, udp_pc, udp_questions, qi, answers_copy, players, results,
                   broadcasts, cpc, inbox>>

\* wait_for_players returns and game_loop begins
wait_for_players ==
    /\ udp_pc = "wait_for_players"
    /\ Cardinality(DOMAIN udp_clients) >= MIN_PLAYERS
    /\ qi' = 1
    /\ udp_pc' = IF udp_questions = <<>> THEN "final" ELSE "open"
    /\ UNCHANGED <<framevars, clivars, tcpvars, timely, picked, udp_questions, udp_clients, scores, answers, answers_copy,
                   players, results, broadcasts, cpc, inbox, net>>

\* endpoints broadcast sends to
Recipients == {udp_clients[n] : n \in DOMAIN udp_clients}
\* broadcast(obj), as far as a claim looks at it
Broadcast(type, qid) == Append(broadcasts, [type |-> type, question_id |-> qid, to |-> Recipients])

\* a game_loop that opens a question without emptying its list
open_question_keep ==
    /\ udp_pc = "open"
    /\ udp_pc' = "question"
    /\ timely' = <<>>
    /\ UNCHANGED <<framevars, clivars, tcpvars, picked, udp_questions, udp_clients, scores, qi, answers_copy, players,
                   results, broadcasts, cpc, inbox, net, answers>>

\* game_loop: with self.lock: self.answers[qid] = []
open_question ==
    /\ udp_pc = "open"
    /\ answers' = [answers EXCEPT ![udp_questions[qi].id] = <<>>]
    /\ udp_pc' = "question"
    /\ timely' = <<>>
    /\ UNCHANGED <<framevars, clivars, tcpvars, picked, udp_questions, udp_clients, scores, qi, answers_copy, players,
                   results, broadcasts, cpc, inbox, net>>

\* game_loop: self.broadcast(question_msg)
send_question ==
    /\ udp_pc = "question"
    /\ broadcasts' = Broadcast("question", udp_questions[qi].id)
    /\ inbox' = [a \in Addrs |->
                   IF a \in Recipients /\ cpc[a] = "listen"
                   THEN Append(inbox[a], udp_questions[qi].id) ELSE inbox[a]]
    /\ udp_pc' = "sleep"
    /\ UNCHANGED <<framevars, clivars, tcpvars, timely, picked, udp_questions, udp_clients, scores, answers, qi, answers_copy,
                   players, results, cpc, net>>

\* game_loop: QUESTION_TIME is over; the copies taken under the lock
take_answers ==
    /\ udp_pc = "sleep"
    /\ answers_copy' = answers[udp_questions[qi].id]
    /\ players' = DOMAIN scores
    /\ udp_pc' = "evaluate"
    /\ UNCHANGED <<framevars, clivars, tcpvars, timely, picked, udp_questions, udp_clients, scores, answers, qi, results,
                   broadcasts, cpc, inbox, net>>

\* the last answer stored, whoever sent it
player_answer_anyone(player, copy) == IF copy = <<>> THEN None ELSE copy[Len(copy)].a

\* the first answer of the player instead of the last
RECURSIVE player_answer_first(_, _)
player_answer_first(player, copy) ==
    IF copy = <<>> THEN None
    ELSE IF Head(copy).n = player THEN Head(copy).a
    ELSE player_answer_first(player, Tail(copy))

\* for n, a in reversed(answers_copy): if n == player: player_answer = a; break
RECURSIVE player_answer(_, _)
player_answer(player, copy) ==
    IF copy = <<>> THEN None
    ELSE IF copy[Len(copy)].n = player THEN copy[Len(copy)].a
    ELSE player_answer(player, SubSeq(copy, 1, Len(copy) - 1))

\* is_correct = (player_answer == correct_index)
is_correct(player, copy, q) == player_answer(player, copy) = q.answer

\* game_loop: the loop over players
evaluate ==
    /\ udp_pc = "evaluate"
    /\ results' = [p \in players |->
                     [answer |-> player_answer(p, answers_copy),
                      correct |-> is_correct(p, answers_copy, udp_questions[qi])]]
    /\ scores' = [n \in DOMAIN scores |->
                    IF n \in players /\ is_correct(n, answers_copy, udp_questions[qi])
                    THEN scores[n] + 1 ELSE scores[n]]
    /\ udp_pc' = "reveal"
    /\ UNCHANGED <<framevars, clivars, tcpvars, timely, picked, udp_questions, udp_clients, answers, qi, answers_copy, players,
                   broadcasts, cpc, inbox, net>>

\* a loop that ends after its first question
AfterReveal_stop == "final"

\* for q in self.questions: the next question, or the end of the loop
AfterReveal == IF qi < Len(udp_questions) THEN "open" ELSE "final"

\* game_loop: self.broadcast(reveal_msg), the pause, the next q of the for loop
send_reveal ==
    /\ udp_pc = "reveal"
    /\ broadcasts' = Broadcast("reveal", udp_questions[qi].id)
    /\ qi' = qi + 1
    /\ udp_pc' = AfterReveal
    /\ UNCHANGED <<framevars, clivars, tcpvars, timely, picked, udp_questions, udp_clients, scores, answers, answers_copy,
                   players, results, cpc, inbox, net>>

\* game_loop: self.broadcast(final_msg); start() returns and the process ends
send_final ==
    /\ udp_pc = "final"
    /\ broadcasts' = Broadcast("final", 0)
    /\ udp_pc' = "done"
    /\ UNCHANGED <<framevars, clivars, tcpvars, timely, picked, udp_questions, udp_clients, scores, answers, qi, answers_copy,
                   players, results, cpc, inbox, net>>

\* the steps of the main thread
game_loop ==
    \/ wait_for_players
    \/ open_question
    \/ send_question
    \/ take_answers
    \/ evaluate
    \/ send_reveal
    \/ send_final

UdpNext ==
    \/ \E a \in Addrs : register(a)
    \/ \E a \in Addrs, k \in Picks : show_question(a, k)
    \/ \E d \in Arriving : listen_loop(d)
    \/ game_loop

UdpSpec == UdpInit /\ [][UdpNext]_vars

\* the main thread is scheduled; no datagram is promised to arrive
UdpFairSpec == UdpSpec /\ WF_vars(game_loop)

\* either server: the behaviours of Spec and those of UdpSpec
QuizSpec == (Init \/ UdpInit) /\ [][Next \/ UdpNext]_vars

(* ---------------------------- receive loop, byte by byte ---------------- *)
\* longest byte stream looked at
MaxStream == 6

\* the bytes a peer may send: two ASCII letters, the newline, and the lead
\* and continuation byte of one two-byte UTF-8 character
Bytes == {"a", "b", NL, "L", "C"}

\* the byte streams a peer may send
RECURSIVE StreamsOfLen(_)
StreamsOfLen(k) ==
    IF k = 0 THEN {<<>>}
    ELSE {Append(s, x) : s \in StreamsOfLen(k - 1), x \in Bytes}
Streams == UNION {StreamsOfLen(k) : k \in 1..MaxStream}

\* bytes.decode('utf-8') does not raise
RECURSIVE Decodable(_)
Decodable(bs) ==
    IF bs = <<>> THEN TRUE
    ELSE IF Head(bs) \in {"a", "b", NL} THEN Decodable(Tail(bs))
    ELSE /\ Head(bs) = "L"
         /\ Len(bs) >= 2
         /\ bs[2] = "C"
         /\ Decodable(Tail(Tail(bs)))

\* bytes.decode('utf-8') of decodable bytes: the two-byte sequence becomes
\* one character
RECURSIVE Decode(_)
Decode(bs) ==
    IF bs = <<>> THEN <<>>
    ELSE IF Head(bs) = "L" THEN <<"e">> \o Decode(Tail(Tail(bs)))
    ELSE <<Head(bs)>> \o Decode(Tail(bs))

\* str.split('\n'): the pieces between the newlines, the last one being
\* what follows the last newline
RECURSIVE Split(_)
Split(text) ==
    IF \A i \in 1..Len(text) : text[i] # NL THEN <<text>>
    ELSE LET k == CHOOSE i \in 1..Len(text) :
                     text[i] = NL /\ \A j \in 1..(i - 1) : text[j] # NL
         IN <<SubSeq(text, 1, k - 1)>> \o Split(SubSeq(text, k + 1, Len(text)))

\* the JSON texts among the lines of the model: one ASCII message and one
\* message with the two-byte character.  No proper prefix of a JSON text
\* and no concatenation of two is a JSON text.
ValidLines == {<<"a", "b">>, <<"e">>}

\* json.loads(msg) does not raise JSONDecodeError
json_loads_ok(msg) == msg \in ValidLines

\* server_tcp.py: the loop over the complete lines of one read; a blank
\* line is skipped, a line that is not JSON is reported and skipped
TcpDispatch(messages) ==
    SelectSeq(messages, LAMBDA msg : strip(msg) # <<>> /\ json_loads_ok(msg))

\* app.py: the loop over the pieces of one read; the JSONDecodeError of a
\* piece is caught outside the loop, which ends the loop
RECURSIVE AppDispatch(_)
AppDispatch(messages) ==
    IF messages = <<>> THEN <<>>
    ELSE IF Head(messages) = <<>> THEN AppDispatch(Tail(messages))
    ELSE IF json_loads_ok(Head(messages))
         THEN <<Head(messages)>> \o AppDispatch(Tail(messages))
         ELSE <<>>

\* server_tcp.py, one turn of the receive loop with data decoded
tcp_frame(data) ==
    LET messages == Split(buffer \o data) IN
    /\ buffer' = messages[Len(messages)]
    /\ dispatched' = dispatched \o TcpDispatch(SubSeq(messages, 1, Len(messages) - 1))

\* app.py, one turn of the receive loop with data decoded
app_frame(data) ==
    /\ dispatched' = dispatched \o AppDispatch(Split(strip(data)))
    /\ UNCHANGED buffer

\* one turn of handle_client's receive loop: recv returns the next n bytes
frame_recv(n) ==
    /\ fpc = "recv"
    /\ n <= Len(unread)
    /\ unread' = SubSeq(unread, n + 1, Len(unread))
    /\ LET chunk == SubSeq(unread, 1, n) IN
       IF Decodable(chunk)
       THEN /\ IF impl = "server_tcp" THEN tcp_frame(Decode(chunk)) ELSE app_frame(Decode(chunk))
            /\ UNCHANGED fpc
       ELSE \* UnicodeDecodeError: 'except Exception' leaves the loop
            /\ fpc' = "closed"
            /\ UNCHANGED <<buffer, dispatched>>
    /\ UNCHANGED <<tcpvars, udpvars, clivars, stream>>

\* a connection is accepted and its peer sends a stream
FrameInit ==
    /\ TcpQuiet
    /\ impl \in {"server_tcp", "app"}
    /\ UdpIdle
    /\ ClientIdle
    /\ fpc = "recv"
    /\ stream \in Streams
    /\ unread = stream
    /\ buffer = <<>>
    /\ dispatched = <<>>

FrameNext == \E n \in 1..MaxStream : frame_recv(n)

FrameSpec == FrameInit /\ [][FrameNext]_vars

(* ---------------------------- console client (tcp/client.py) ----------- *)
\* questions the server sends in a behaviour, with ids 1..MaxQuestions
MaxQuestions == 3

\* lines the user types in a behaviour
MaxTyped == 3

\* what the user may type at the prompt
Keys == {"a", "B", "x"}

\* str.lower()
lower(k) == IF k = "B" THEN "b" ELSE k

\* ord(answer), for the letters of a choice
ord(k) == CASE k = "a" -> 97 [] k = "b" -> 98 [] k = "c" -> 99 [] OTHER -> 100

\* handle_message for a question: current_question and waiting_for_answer
\* are set under the lock, display_question starts a get_answer_input
\* thread with the question as its argument
handle_question ==
    /\ Len(inputs) < MaxQuestions
    /\ client_question = 0   \* the server reveals a question before the next
    /\ client_question' = Len(inputs) + 1
    /\ waiting_for_answer' = TRUE
    /\ inputs' = Append(inputs, [q |-> Len(inputs) + 1, pc |-> "prompt", answer |-> ""])
    /\ UNCHANGED <<typed, answers_sent>>

\* handle_message for result, timeout and question_end
handle_ending ==
    /\ inputs # <<>>
    /\ client_question' = 0
    /\ waiting_for_answer' = FALSE
    /\ UNCHANGED <<inputs, typed, answers_sent>>

\* handle_message for wrong_answer
handle_wrong_answer ==
    /\ inputs # <<>>
    /\ waiting_for_answer' = FALSE
    /\ UNCHANGED <<client_question, inputs, typed, answers_sent>>

\* the listening thread handles the next message of the server
handle_message ==
    /\ \/ handle_question
       \/ handle_ending
       \/ handle_wrong_answer
    /\ UNCHANGED <<tcpvars, udpvars, framevars>>

\* get_answer_input: input() gets the terminal; one thread at a time reads
enter_input(i) ==
    /\ inputs[i].pc = "prompt"
    /\ \A j \in 1..Len(inputs) : inputs[j].pc # "input"
    /\ inputs' = [inputs EXCEPT ![i].pc = "input"]
    /\ UNCHANGED <<tcpvars, udpvars, framevars, client_question, waiting_for_answer, typed,
                   answers_sent>>

\* the user types a line; input() returns it to the thread that reads
type_line(i, k) ==
    /\ inputs[i].pc = "input"
    /\ typed < MaxTyped
    /\ typed' = typed + 1
    /\ inputs' = [inputs EXCEPT ![i].pc = "check", ![i].answer = lower(k)]
    /\ UNCHANGED <<tcpvars, udpvars, framevars, client_question, waiting_for_answer, answers_sent>>

\* get_answer_input: with self.lock: the test of waiting_for_answer
check_waiting(i) ==
    /\ inputs[i].pc = "check"
    /\ IF ~waiting_for_answer
       THEN /\ inputs' = [inputs EXCEPT ![i].pc = "done"]
            /\ UNCHANGED waiting_for_answer
       ELSE /\ waiting_for_answer' = FALSE
            /\ inputs' = [inputs EXCEPT ![i].pc =
                             IF inputs[i].answer \in {"a", "b", "c", "d"} THEN "send" ELSE "done"]
    /\ UNCHANGED <<tcpvars, udpvars, framevars, client_question, typed, answers_sent>>

\* get_answer_input: the answer message is built from the thread's own
\* question and sent
send_answer(i) ==
    /\ inputs[i].pc = "send"
    /\ answers_sent' = Append(answers_sent,
                              [question_id |-> inputs[i].q, answer |-> ord(inputs[i].answer) - 96])
    /\ inputs' = [inputs EXCEPT ![i].pc = "done"]
    /\ UNCHANGED <<tcpvars, udpvars, framevars, client_question, waiting_for_answer, typed>>

\* TCPClient after connect(): no question yet
ClientInit ==
    /\ TcpIdle
    /\ UdpIdle
    /\ FrameIdle
    /\ ClientIdle

ClientNext ==
    \/ handle_message
    \/ \E i \in 1..Len(inputs) : enter_input(i)
    \/ \E i \in 1..Len(inputs), k \in Keys : type_line(i, k)
    \/ \E i \in 1..Len(inputs) : check_waiting(i)
    \/ \E i \in 1..Len(inputs) : send_answer(i)

ClientSpec == ClientInit /\ [][ClientNext]_vars

(* ======================================================================= *)
(* Claims                                                                  *)
(* ======================================================================= *)
Score(c) == Entry(c).score
QuestionOfId(q) == IF q = Q1.id THEN Q1 ELSE Q2

C3_StaleAnswerChangesNothing ==
    [][\A c \in Conns :
         (/\ pc[c] = "handle_answer"
          /\ pc'[c] # "handle_answer"
          /\ cur[c].question_id # current_question.id) =>
            /\ pc'[c] = "recv"
            /\ UNCHANGED <<clients, answered, current_question, game_active,
                           accepted, sent, out, lock>>]_vars

\* a registered player who has not answered the open question has the
\* handler take up, with the lock free, an answer that carries another
\* question's id together with that question's correct choice
C3_Witness ==
    \E c \in Socks :
        /\ pc[c] = "handle_answer"
        /\ lock = NoThread
        /\ game_active
        /\ c \notin answered
        /\ current_question # NoQuestion
        /\ cur[c].question_id # current_question.id
        /\ cur[c].answer = QuestionOfId(cur[c].question_id).correct

C2_SecondAnswerChangesNoScore ==
    [][\A c \in Conns :
         (/\ pc[c] = "handle_answer"
          /\ pc'[c] # "handle_answer"
          /\ accepted[c] # "none"
          /\ cur[c].question_id = current_question.id) =>
            \A d \in Socks \cap Socks' : Score(d)' = Score(d)]_vars

ErrorSent(c) == sent[c].m.type = "error" /\ sent[c].to = {c}
Rejected(c) == ErrorSent(c) /\ sockClosed[c] /\ c \notin Socks
\* the step in which handle_join turns a join down
RejectStep(c) ==
    pc[c] = "handle_join" /\ pc'[c] = "recv" /\ ~sockClosed[c] /\ sockClosed'[c]

\* C5: a join whose username is empty after trimming, or is held by a player
\* registered on another connection, is answered with an error on the
\* joining connection (as long as its peer is there), the connection is
\* closed and not registered, and the registry is left as it is.
C5_BadJoinRejected ==
    /\ \A c \in Conns :
         (pc[c] = "handle_join" /\ c \notin Socks /\ strip(cur[c].username) = <<>>)
            ~> (Rejected(c) \/ ~peerAlive[c])
    /\ \A c \in Conns :
         (pc[c] = "handle_join" /\ c \notin Socks /\ cur[c].username \in Usernames)
            ~> (Rejected(c) \/ ~peerAlive[c] \/ c \in Socks)
    /\ [][\A c \in Conns : RejectStep(c) /\ c \notin Socks => clients' = clients]_vars

\* C6: a rejected join leaves the registry unchanged, also when it comes on
\* a connection that is itself registered: neither the join nor the
\* handling of the connection the server closed on it removes or alters an
\* entry.
C6_RejectedJoinKeepsRegistry ==
    [][\A c \in Conns :
         /\ RejectStep(c) => clients' = clients
         /\ (c \in Socks /\ sockClosed[c] /\ peerAlive[c]) =>
               (c \in Socks' /\ Entry(c)' = Entry(c))]_vars

\* C7: after a successful join (the welcome is out) the handler broadcasts a
\* leaderboard that holds the new player and returns to its receive loop.
C7_JoinAnnounced ==
    /\ [][\A c \in Conns :
            (pc[c] = "handle_join" /\ c \notin Socks /\ c \in Socks') => Score(c)' = 0]_vars
    /\ \A c \in Conns :
         (sent[c].m.type = "welcome")
            ~> (/\ pc[c] = "recv"
                /\ sent[c].m.type = "leaderboard"
                /\ c \in Socks => Entry(c).username \in DOMAIN sent[c].m.scores)

\* C8: a correct answer of a registered player for the open question adds 10
\* to the player's score, then a result naming the player is broadcast, and
\* after it a leaderboard showing the player's new score.
C8_CorrectAnswerAnnounced ==
    /\ [][\A c \in Conns :
            (/\ pc[c] = "handle_answer" /\ pc'[c] # "handle_answer"
             /\ c \in Socks /\ c \notin answered
             /\ current_question # NoQuestion
             /\ cur[c].question_id = current_question.id
             /\ cur[c].answer = current_question.correct) =>
               (c \in Socks' /\ Score(c)' = Score(c) + 10)]_vars
    /\ \A c \in Conns :
         (c \in Socks /\ accepted[c] = "right" /\ pc[c] # "recv")
            ~> (sent[c].m.type = "result" /\ (c \in Socks => sent[c].m.player = Entry(c).username))
    /\ \A c \in Conns :
         (sent[c].m.type = "result")
            ~> (/\ sent[c].m.type = "leaderboard"
                /\ c \in Socks => /\ Entry(c).username \in DOMAIN sent[c].m.scores
                                  /\ sent[c].m.scores[Entry(c).username] = Score(c))

\* C9: a wrong choice in 1..4 of a registered player for the open question
\* gets a wrong_answer message on that player's connection only; nothing is
\* broadcast and no score changes.
C9_WrongAnswerPrivate ==
    [][\A c \in Conns :
         (/\ pc[c] = "handle_answer" /\ pc'[c] # "handle_answer"
          /\ c \in Socks /\ c \notin answered
          /\ current_question # NoQuestion
          /\ cur[c].question_id = current_question.id
          /\ cur[c].answer \in 1..4
          /\ cur[c].answer # current_question.correct) =>
            /\ clients' = clients
            /\ (peerAlive[c] /\ ~sockClosed[c]) =>
                  (sent'[c].m.type = "wrong_answer" /\ sent'[c].to = {c})
            /\ sent'[c].m.type \notin {"result", "leaderboard"}
            /\ \A t \in Threads \ {c} : sent'[t] = sent[t]]_vars

\* C10: when the time of a question is up the round worker broadcasts one
\* reveal with the question's correct index: timeout exactly when the
\* answered set is empty at that moment, and then nobody has scored on the
\* question; question_end otherwise.
C10_OneRevealPerQuestion ==
    /\ [][\A w \in Workers :
            (pc[w] = "sleep" /\ pc'[w] # "sleep") =>
               /\ out'[w].correct_answer = questions[idx[w]].correct
               /\ out'[w].type = (IF answered = {} THEN "timeout" ELSE "question_end")
               /\ out'[w].type = "timeout" => \A c \in Conns : accepted[c] # "right"]_vars
    /\ \A w \in Workers :
         (pc[w] = "sleep") ~> (pc[w] = "pause" /\ sent[w].m.type \in {"timeout", "question_end"})

SecondCorrectAnswer(c, q) ==
    /\ c \in Socks /\ c \notin answered
    /\ pc[c] = "handle_answer"
    /\ current_question # NoQuestion /\ current_question.id = q
    /\ cur[c].question_id = q
    /\ cur[c].answer = current_question.correct
    /\ \E d \in Socks \ {c} : accepted[d] = "right"

\* C12: a correct answer for the open question scores although another
\* player's correct answer for it was accepted before: it is accepted as
\* right too, unless the question is over or the player gone before the
\* handler gets to it.
C12_EveryCorrectAnswerScores ==
    \A c \in Conns, q \in QIds :
       SecondCorrectAnswer(c, q)
          ~> (accepted[c] = "right" \/ current_question.id # q \/ c \notin Socks)

\* C13: a start of a round while no player is registered or the question
\* list is empty fails without any change: start_game returns, game_active,
\* current_question, the answered set and the registry stay as they are and
\* nothing is broadcast.
C13_StartNotReadyChangesNothing ==
    [][\A w \in Workers :
         (/\ pc[w] = "start_game" /\ pc'[w] # "start_game"
          /\ (clients = <<>> \/ questions = <<>>)) =>
            /\ pc'[w] = "done"
            /\ UNCHANGED <<game_active, current_question, answered, clients, out, sent>>]_vars

\* C14: a round that has started (start_game is past its checks and has set
\* game_active) runs to its end whatever joins, answers and disconnects
\* happen meanwhile: its worker broadcasts game_over and returns.
C14_RoundRunsToGameOver ==
    \A w \in Workers :
       (pc[w] \in {"next_question", "end_game"})
          ~> (pc[w] = "done" /\ sent[w].m.type = "game_over")

\* round workers inside start_game's loop or end_game
Running == {w \in Workers : pc[w] \notin {"unborn", "start_game", "done", "crashed"}}

\* C15: whatever "start" commands the operator gives, at most one round
\* worker is inside start_game at any time.
C15_OneRoundAtATime == Cardinality(Running) <= 1

\* end_game has run: a worker has broadcast game_over and returned
GameOver == \E w \in Workers : pc[w] = "done" /\ sent[w].m.type = "game_over"

\* C18: once end_game has run the session stays over: no question is
\* opened and no score changes any more.
C18_GameOverIsTerminal ==
    [][GameOver =>
         /\ \A v \in Workers : ~(pc[v] = "next_question" /\ pc'[v] # "next_question")
         /\ \A c \in Socks \cap Socks' : Score(c)' = Score(c)]_vars

\* C16: an answer of a registered player for the open question whose choice
\* is outside 1..4 is turned down with an error to the sender and changes
\* nothing: no score, no entry in the answered set, no mark that would keep
\* a later valid answer of the sender from being accepted.
C16_OutOfRangeRejected ==
    [][\A c \in Conns :
         (/\ pc[c] = "handle_answer" /\ pc'[c] # "handle_answer"
          /\ c \in Socks /\ c \notin answered
          /\ tcp_is_current(cur[c])
          /\ ~tcp_in_range(cur[c].answer)) =>
            /\ UNCHANGED <<clients, answered, accepted>>
            /\ (peerAlive[c] /\ ~sockClosed[c]) =>
                  (sent'[c].m.type = "error" /\ sent'[c].to = {c})]_vars

BroadcastPcs ==
    {"join_broadcast", "answer_broadcast_result", "answer_broadcast_leaderboard",
     "game_broadcast_question", "game_broadcast_reveal", "end_broadcast"}

\* C19: a broadcast sends to every registered connection even when sends to
\* some of them fail, removes exactly the connections whose send failed, and
\* only after the sweep, leaves the other entries as they are, and returns
\* to its caller.
C19_BroadcastSweepsAll ==
    [][\A t \in Threads :
         (pc[t] \in BroadcastPcs /\ pc'[t] # pc[t]) =>
            /\ pc'[t] = AfterBroadcast(pc[t])
            /\ sent'[t].m = out[t]
            /\ \A c \in Socks : (peerAlive[c] /\ ~sockClosed[c]) => c \in sent'[t].to
            /\ clients' = Without(clients, Socks \ sent'[t].to)]_vars

\* C20: when the read of a connection returns end of stream or fails, the
\* connection's player is removed from the registry and the socket closed,
\* and the removal changes no other entry.
C20_GoneClientIsRemoved ==
    /\ \A c \in Conns :
         (pc[c] = "cleanup") ~> (pc[c] = "closed" /\ c \notin Socks /\ sockClosed[c])
    /\ [][\A c \in Conns :
            (pc[c] = "cleanup" /\ pc'[c] # "cleanup") =>
                clients' = Without(clients, {c})]_vars

(* ---------------------------- UDP claims ------------------------------- *)
UdpQuestion == udp_questions[qi]

\* the answer of the latest entry of list s that carries name p
LastStored(p, s) ==
    LET I == {i \in 1..Len(s) : s[i].n = p} IN
    IF I = {} THEN None ELSE s[CHOOSE i \in I : \A j \in I : j <= i].a

\* C21: at the reveal of a question the list evaluated is what listen_loop
\* stored under the question's id since the question was opened (opening
\* empties the list), and for every player the answer evaluated is the last
\* entry of that list under the player's name; a player without an entry
\* has no answer and is not correct.
C21_LastAnswerIsEvaluated ==
    [][/\ (udp_pc = "open" /\ udp_pc' = "question") => answers'[UdpQuestion.id] = <<>>
       /\ (udp_pc = "sleep" /\ udp_pc' = "evaluate") =>
              answers_copy' = answers[UdpQuestion.id]
       /\ (udp_pc = "evaluate" /\ udp_pc' = "reveal") =>
              /\ DOMAIN results' = players
              /\ \A p \in DOMAIN results' :
                    /\ results'[p].answer = LastStored(p, answers_copy)
                    /\ results'[p].correct = (LastStored(p, answers_copy) = UdpQuestion.answer)
                    /\ LastStored(p, answers_copy) = None => ~results'[p].correct]_vars

\* a player whose first answer was right and whose last is wrong, beside a
\* player who sent nothing, both evaluated as not correct
C21_Witness ==
    /\ udp_pc = "reveal"
    /\ \E p \in DOMAIN results, r \in DOMAIN results :
          /\ Len(answers_copy) = 2
          /\ answers_copy[1].n = p /\ answers_copy[2].n = p
          /\ answers_copy[1].a = UdpQuestion.answer
          /\ answers_copy[2].a # UdpQuestion.answer
          /\ results[p].answer = answers_copy[2].a /\ ~results[p].correct
          /\ r # p /\ results[r].answer = None /\ ~results[r].correct

\* game_loop has revealed question id q before
Revealed(q) == \E i \in 1..Len(broadcasts) :
                  broadcasts[i].type = "reveal" /\ broadcasts[i].question_id = q

\* C22: the score of a registered player changes only when game_loop
\* evaluates a question, at most once per question, by exactly 10, and only
\* if the player's most recent answer for the question is its correct index;
\* answers delivered twice do not score twice.
C22_ScoreTenOncePerQuestion ==
    [][\A p \in DOMAIN scores :
          scores'[p] # scores[p] =>
             /\ udp_pc = "evaluate"
             /\ ~Revealed(UdpQuestion.id)
             /\ LastStored(p, answers_copy) = UdpQuestion.answer
             /\ scores'[p] = scores[p] + 10]_vars

\* C23: a register message under a name that is registered already is
\* rejected and leaves the registry as it was: the name keeps the endpoint
\* it was registered with.
C23_RegisteredNameKeepsEndpoint ==
    [][\A n \in DOMAIN udp_clients :
          n \in DOMAIN udp_clients' /\ udp_clients'[n] = udp_clients[n]]_vars

\* C24: the answer datagram the client sends after the user typed the number
\* of the right choice carries that number, the index the server compares
\* with the question's "answer": every such datagram on its way to the
\* server is one that game_loop evaluates as correct.
C24_ClientSendsDisplayedIndex ==
    \A d \in net :
       (d.type = "answer" /\ <<d.addr, d.question_id>> \in picked)
          => d.answer = UdpQuestionOfId(d.question_id).answer

\* what a round over the question list qs has to broadcast, in order
RECURSIVE Programme(_)
Programme(qs) ==
    IF qs = <<>> THEN << <<"final", 0>> >>
    ELSE << <<"question", Head(qs).id>>, <<"reveal", Head(qs).id>> >> \o Programme(Tail(qs))

\* type and question id of what game_loop has broadcast so far
Broadcasts == [i \in 1..Len(broadcasts) |-> <<broadcasts[i].type, broadcasts[i].question_id>>]

\* C25: what game_loop has broadcast is at every moment the beginning of:
\* each question of the list once, in list order, each followed by its one
\* reveal, then one final; every broadcast has somebody to go to; and once
\* MIN_PLAYERS players are registered the main thread gets through all of
\* it and ends, whatever datagrams arrive meanwhile.
C25_RoundBroadcastsAllAndEnds ==
    /\ [](/\ Len(Broadcasts) <= Len(Programme(udp_questions))
          /\ Broadcasts = SubSeq(Programme(udp_questions), 1, Len(Broadcasts))
          /\ \A i \in 1..Len(broadcasts) : broadcasts[i].to # {}
          /\ udp_pc = "done" => Broadcasts = Programme(udp_questions))
    /\ (Cardinality(DOMAIN udp_clients) >= MIN_PLAYERS) ~> (udp_pc = "done")

\* a round of two questions at its end, during which a second player
\* registered and answers came in
C25_Witness ==
    /\ udp_pc = "done"
    /\ Len(broadcasts) = 5
    /\ Cardinality(broadcasts[1].to) = 1 /\ Cardinality(broadcasts[5].to) = 2
    /\ Len(answers[2]) = MaxStored

(* ---------------------------- TCP claims, continued -------------------- *)
\* the places where a thread is about to take self.lock
LockPcs ==
    {"handle_join", "handle_answer", "cleanup", "join_get_leaderboard",
     "answer_get_leaderboard", "end_get_leaderboard"} \cup BroadcastPcs

\* C26: no thread asks for the session lock while it holds the lock itself
\* (a threading.Lock is not re-entrant: such a thread, and after it every
\* thread that needs the lock, would wait for ever).
C26_NoLockReacquired == \A t \in Threads : lock = t => pc[t] \notin LockPcs

\* the one round that is on has broadcast the reveal of its question and
\* sleeps through the pause before the next question or end_game
RevealedNotReplaced == \E w \in Workers : pc[w] = "pause" /\ Running = {w}

\* C27: an answer that handle_answer processes between the reveal of a
\* question and the next question (or the end of the game) is dropped: no
\* score and no entry of the registry changes, the answered set stays as it
\* is, nothing is sent and the handler goes back to reading, whatever id and
\* choice the answer carries.
C27_AnswerAfterRevealRejected ==
    [][\A c \in Conns :
          (pc[c] = "handle_answer" /\ pc'[c] # "handle_answer" /\ RevealedNotReplaced)
             => /\ clients' = clients
                /\ answered' = answered
                /\ sent' = sent
                /\ pc'[c] = "recv"]_vars

\* C28: while no round is active an answer has no effect: the receive loop
\* does not hand it to handle_answer, and a handle_answer that runs then
\* changes no score, no registry entry and no answered set, sends nothing
\* and goes back to reading, whatever id and choice the answer carries.
C28_AnswerOutsideRoundIgnored ==
    [][\A c \in Conns :
          ~game_active =>
             /\ (pc[c] = "recv" => pc'[c] # "handle_answer")
             /\ (pc[c] = "handle_answer" /\ pc'[c] # "handle_answer")
                   => /\ clients' = clients
                      /\ answered' = answered
                      /\ sent' = sent
                      /\ pc'[c] = "recv"]_vars

\* C30: the answered set is emptied in the very step in which a question
\* becomes the current question, and loses a member in no other step: a
\* marker recorded for the current question stays while that question is
\* current.
C30_AnsweredResetWithQuestion ==
    [][/\ (current_question' # current_question /\ current_question' # NoQuestion)
             => answered' = {}
       /\ (\E c \in answered : c \notin answered')
             => (current_question' # current_question /\ current_question' # NoQuestion)]_vars

(* ---------------------------- both servers ----------------------------- *)
\* the entries of list s under names of set reg
OfRegistered(s, reg) == SelectSeq(s, LAMBDA e : e.n \in reg)

\* C29: an answer from a sender that is not registered changes no score and
\* marks nobody.  TCP: a handle_answer for a connection that is not in the
\* registry leaves registry, scores, answered set and marks as they are and
\* sends nothing.  UDP: storing an answer changes no score and no registry
\* entry, and the evaluation of a question gives every player the result and
\* the score it would give if the entries under names without a registry
\* entry were not in the list; such names get no result and no score.
C29_UnregisteredAnswerIgnored ==
    [][/\ \A c \in Conns :
            (pc[c] = "handle_answer" /\ pc'[c] # "handle_answer" /\ c \notin Socks)
               => /\ clients' = clients
                  /\ answered' = answered
                  /\ accepted' = accepted
                  /\ sent' = sent
       /\ answers' # answers => (scores' = scores /\ udp_clients' = udp_clients)
       /\ (udp_pc = "evaluate" /\ udp_pc' = "reveal") =>
             LET mine == OfRegistered(answers_copy, players) IN
             /\ DOMAIN scores' = DOMAIN scores
             /\ DOMAIN results' = players
             /\ \A p \in players :
                   /\ results'[p].answer = LastStored(p, mine)
                   /\ results'[p].correct = (LastStored(p, mine) = UdpQuestion.answer)
                   /\ scores'[p] = scores[p] + IF LastStored(p, mine) = UdpQuestion.answer
                                               THEN 1 ELSE 0]_vars

\* a reveal whose list ends with a right answer under a name that is not
\* registered, the one registered player without answer and without point
C29_Witness ==
    /\ udp_pc = "reveal"
    /\ answers_copy # <<>>
    /\ answers_copy[Len(answers_copy)].n \notin DOMAIN scores
    /\ answers_copy[Len(answers_copy)].a = UdpQuestion.answer
    /\ \E p \in players : results[p].answer = None /\ ~results[p].correct /\ scores[p] = 0

(* ---------------------------- locking discipline ----------------------- *)
\* C31: the registry with its scores, current_question, the answered set
\* and game_active are written only inside 'with self.lock': no step
\* changes one of them while another thread has the lock.
C31_WritesUnderLock ==
    [][(\/ clients' # clients
        \/ current_question' # current_question
        \/ answered' # answered
        \/ game_active' # game_active) => lock = NoThread]_vars

\* C32: no thread sends to a socket inside 'with self.lock': a step that
\* sends is not one of the steps that run under the lock.
C32_NoSendUnderLock ==
    [][\A t \in Threads :
          (sent'[t] # sent[t] /\ sent'[t] # NoSend) => pc[t] \notin LockPcs]_vars

(* ---------------------------- round order ------------------------------ *)
\* the message types of the reveal
RevealTypes == {"timeout", "question_end"}

\* C33: a round worker broadcasts the questions in list order, the k-th
\* with question_number k and the id of the k-th question, the first as
\* its first message and every other right after the reveal of the one
\* before; a reveal only right after a question; game_over only after the
\* reveal of the last question (at once when there is no question), and
\* nothing after game_over.
C33_RoundOrder ==
    [][\A w \in Workers :
          sent'[w] # sent[w] =>
            LET old == sent[w].m.type
                new == sent'[w].m
            IN CASE new.type = "question" ->
                      /\ new.question_number = idx[w]
                      /\ new.id = questions[idx[w]].id
                      /\ IF idx[w] = 1 THEN old = "none" ELSE old \in RevealTypes
                 [] new.type \in RevealTypes ->
                      /\ old = "question"
                      /\ new.correct_answer = questions[idx[w]].correct
                 [] new.type = "game_over" ->
                      \/ old \in RevealTypes /\ idx[w] = Len(questions)
                      \/ old = "none" /\ questions = <<>>
                 [] OTHER -> FALSE]_vars

(* ---------------------------- removal ---------------------------------- *)
\* the entries of the registry whose connection is in keep, in their order
Kept(keep) == SelectSeq(clients, LAMBDA e : e.sock \in keep)

\* C36: removing a player is idempotent.  The clean-up of a connection
\* handler leaves exactly the entries of the other connections, unchanged
\* and in order, so it changes nothing when the broadcast sweep has removed
\* the connection before, and it ends with the handler closed; a sweep
\* removes only connections that are in the registry and did not get the
\* message, and leaves the other entries unchanged and in order.
C36_RemovalIdempotent ==
    [][/\ \A c \in Conns :
            (pc[c] = "cleanup" /\ pc'[c] # "cleanup")
               => /\ clients' = Kept(Socks \ {c})
                  /\ c \notin Socks => clients' = clients
                  /\ pc'[c] = "closed"
       /\ \A t \in Threads :
            (pc[t] \in BroadcastPcs /\ pc'[t] # pc[t])
               => \E F \in SUBSET (Socks \ sent'[t].to) : clients' = Kept(Socks \ F)]_vars

\* a handler is about to clean up a connection that joined and that a
\* sweep has removed since, while another player is registered
C36_Witness ==
    \E c \in Conns :
       /\ pc[c] = "cleanup"
       /\ lock = NoThread
       /\ sent[c].m.type = "welcome"
       /\ c \notin Socks
       /\ clients # <<>>

(* ---------------------------- leaderboard ------------------------------ *)
\* the places where a thread is inside get_leaderboard
SnapshotPcs == {"join_get_leaderboard", "answer_get_leaderboard", "end_get_leaderboard"}

PointFrom(p, s) == IF p \in players /\ LastStored(p, s) = UdpQuestion.answer THEN 1 ELSE 0

\* C37: only the answers that arrive under the id of the question being
\* collected, after its list was emptied and before the list was copied,
\* decide a score: the evaluation changes every score by what those answers
\* alone give, and no other step changes the score of a registered name.
\* An answer under another id, an earlier one or a later one changes no
\* score.
C37_OnlyTimelyAnswersScore ==
    [][\A n \in DOMAIN scores :
          /\ n \in DOMAIN scores'
          /\ scores'[n] = scores[n] +
                (IF udp_pc = "evaluate" /\ udp_pc' = "reveal" THEN PointFrom(n, timely) ELSE 0)]_vars

\* question 1 has been evaluated: player A has no point although the right
\* choice of question 1 arrived under A's name after the copy and the right
\* choice of question 2 arrived under A's name under id 2
C37_Witness ==
    /\ udp_pc = "reveal"
    /\ qi = 1
    /\ "A" \in players
    /\ scores["A"] = 0
    /\ Len(answers[UQ1.id]) > Len(answers_copy)
    /\ answers[UQ1.id][Len(answers[UQ1.id])] = [n |-> "A", a |-> UQ1.answer]
    /\ \E i \in 1..Len(answers[UQ2.id]) : answers[UQ2.id][i] = [n |-> "A", a |-> UQ2.answer]

(* ---------------------------- framing ---------------------------------- *)
\* the bytes the receive loop has read so far
Consumed == SubSeq(stream, 1, Len(stream) - Len(unread))

\* position of the last newline of bs, 0 when it has none
LastNL(bs) ==
    LET P == {i \in 1..Len(bs) : bs[i] = NL} IN
    IF P = {} THEN 0 ELSE CHOOSE i \in P : \A j \in P : j <= i

\* the bytes after the last newline of bs
Fragment(bs) == SubSeq(bs, LastNL(bs) + 1, Len(bs))

\* the newline-terminated lines of bs, in order, without their newline
RECURSIVE CompleteLines(_)
CompleteLines(bs) ==
    IF LastNL(bs) = 0 THEN <<>>
    ELSE LET front == SubSeq(bs, 1, LastNL(bs) - 1) IN
         CompleteLines(SubSeq(front, 1, LastNL(front))) \o <<Fragment(front)>>

\* the line is a message: UTF-8 text that is a JSON text
IsMessage(line) == Decodable(line) /\ json_loads_ok(Decode(line))

\* the stream is a sequence of newline-terminated messages
MessagesOnly(bs) ==
    /\ bs # <<>>
    /\ bs[Len(bs)] = NL
    /\ \A i \in 1..Len(CompleteLines(bs)) : IsMessage(CompleteLines(bs)[i])

\* the messages among the lines in ls, decoded, in order
Messages(ls) ==
    LET ms == SelectSeq(ls, IsMessage) IN [i \in 1..Len(ms) |-> Decode(ms[i])]

\* C34: when the peer sends newline-terminated messages, then however the
\* stream is cut into reads, after every read the connection is open, the
\* lines handed to process_message are exactly the messages that end in the
\* bytes read so far, once each and in order, and the buffer holds the
\* bytes read after the last newline.
C34_FramingExact ==
    MessagesOnly(stream) =>
       /\ fpc = "recv"
       /\ dispatched = Messages(CompleteLines(Consumed))
       /\ Decodable(Fragment(Consumed))
       /\ buffer = Decode(Fragment(Consumed))

\* C35: whatever newline-terminated lines the peer sends, a line that is
\* not JSON is dropped and nothing else: after every read the connection is
\* open and the lines handed to process_message are exactly the well-formed
\* lines among the complete lines read so far, in order.
C35_InvalidLineDropped ==
    stream[Len(stream)] = NL =>
       /\ fpc = "recv"
       /\ dispatched = Messages(CompleteLines(Consumed))

(* ---------------------------- console client --------------------------- *)
\* C39: every answer the client sends carries the id of the question that
\* is current at the client when it is sent, and the input thread that
\* takes the answering slot (finds waiting_for_answer set and clears it) is
\* the thread of the current question.
C39_AnswerForCurrentQuestion ==
    [][\A i \in 1..Len(inputs) :
          /\ (inputs[i].pc = "send" /\ inputs'[i].pc = "done")
                => answers_sent'[Len(answers_sent')].question_id = client_question
          /\ (inputs[i].pc = "check" /\ inputs'[i].pc # "check" /\ waiting_for_answer)
                => inputs[i].q = client_question]_vars

====
